---- MODULE Spec2Model ----
(***************************************************************************)
(* Encryption-at-rest engine of daily_organiser (src/src/encryption.ts).   *)
(*                                                                         *)
(* Buffers are sequences of bytes (0..255).  The node:crypto primitives    *)
(* (randomBytes, scryptSync, aes-256-gcm) are modelled by small arithmetic *)
(* stand-ins that keep what the engine relies on: the key derivation is    *)
(* deterministic, the cipher is an invertible keystream, and the 16-byte   *)
(* tag is a digest of key, nonce and ciphertext that changes whenever one  *)
(* byte of them changes.                                                   *)
(***************************************************************************)
EXTENDS Integers, Sequences, FiniteSets, TLC

\* ------------------------------------------------------------------ bounds
MaxSaltSeed == 0      \* randomBytes(SALT_LENGTH) draws from seeds 0..MaxSaltSeed
MaxNonceSeed == 0     \* randomBytes(NONCE_LENGTH) draws from seeds 0..MaxNonceSeed
MaxFaults == 2        \* file-system calls that fail in one behaviour
MaxTodos == 4         \* todos in the list of the todo commands
MaxCallSeed == 1      \* nonce seeds of the encrypt calls of the codec tests

\* ------------------------------------------------------- program constants
MAGIC == <<68, 65, 73, 76, 89, 95, 69, 78, 67, 95, 86, 49>>  \* 'DAILY_ENC_V1'
MAGIC_LENGTH == 12
NONCE_LENGTH == 12
TAG_LENGTH == 16
KEY_LENGTH == 32
SALT_LENGTH == 32

NoKey == <<>>          \* sessionKey = null
NoFile == <<-1>>       \* the path does not exist

ErrLocked == "Encryption session not unlocked"
ErrTooShort == "Invalid encrypted data: too short"
ErrFormat == "Invalid encrypted file format"
ErrAuth == "Decryption failed: wrong passphrase or corrupt data"
ErrIO == "EIO"

\* ------------------------------------------------------- node:crypto model
\* a position-weighted checksum modulo a prime: changing one byte changes it
RECURSIVE DigestRange(_, _, _)
DigestRange(s, lo, hi) ==
  IF lo > hi THEN 0
  ELSE IF lo = hi THEN ((s[lo] + 1) * (1 + lo * (lo + 3))) % 65521
  ELSE LET mid == (lo + hi) \div 2
       IN  (DigestRange(s, lo, mid) + DigestRange(s, mid + 1, hi)) % 65521

Digest(s) == (DigestRange(s, 1, Len(s)) + 31337 * (Len(s) + 1)) % 65521

Spread(d, n) ==
  [i \in 1..n |-> IF i = 1 THEN d % 256
                  ELSE IF i = 2 THEN (d \div 256) % 256
                  ELSE (d + 29 * i) % 256]

randomBytes(n, seed) == [i \in 1..n |-> (seed * 37 + i * 11) % 256]

scryptSync(passphrase, salt, keylen) ==
  Spread(Digest(passphrase \o <<255>> \o salt), keylen)

\* cipher.update + cipher.final of aes-256-gcm
gcmCipher(key, nonce, plaintext) ==
  LET ks == Digest(key \o nonce)
  IN  [i \in 1..Len(plaintext) |-> (plaintext[i] + ks + i) % 256]

\* cipher.getAuthTag
gcmAuthTag(key, nonce, encrypted) ==
  Spread(Digest(key \o nonce \o encrypted), TAG_LENGTH)

\* decipher.update + decipher.final: throws unless the tag authenticates
gcmDecipher(key, nonce, tag, encrypted) ==
  LET ks == Digest(key \o nonce)
  IN  IF gcmAuthTag(key, nonce, encrypted) = tag
      THEN [ok |-> TRUE,
            data |-> [i \in 1..Len(encrypted) |->
                        (encrypted[i] + 512 - ((ks + i) % 256)) % 256]]
      ELSE [ok |-> FALSE, data |-> <<>>]

\* Buffer.toString('hex') and Buffer.from(text, 'hex')
toHex(buf) ==
  LET HexDigit(v) == IF v < 10 THEN 48 + v ELSE 87 + v
  IN  [i \in 1..(2 * Len(buf)) |->
         IF i % 2 = 1 THEN HexDigit(buf[(i + 1) \div 2] \div 16)
         ELSE HexDigit(buf[i \div 2] % 16)]
fromHex(text) ==
  LET HexVal(c) == IF c >= 97 THEN c - 87 ELSE c - 48
  IN  [i \in 1..(Len(text) \div 2) |->
         16 * HexVal(text[2 * i - 1]) + HexVal(text[2 * i])]

subarray(buf, from, to) == SubSeq(buf, from + 1, to)

\* String.prototype.trim on the text of .salt
trim(text) == SelectSeq(text, LAMBDA c : c # 32 /\ c # 10 /\ c # 13 /\ c # 9)

\* ------------------------------------------------------------------- codec
Ok(data) == [err |-> "", data |-> data]
Fail(msg) == [err |-> msg, data |-> <<>>]

\* faulty variant: the salt itself is used as the key
deriveKeyFromSalt(passphrase, salt) == salt

deriveKey(passphrase, salt) == scryptSync(passphrase, salt, KEY_LENGTH)

\* faulty variant: tag and nonce are concatenated in the other order
encryptTagFirst(key, plaintext, seed) ==
  IF key = NoKey THEN Fail(ErrLocked)
  ELSE LET nonce == randomBytes(NONCE_LENGTH, seed)
           encrypted == gcmCipher(key, nonce, plaintext)
           tag == gcmAuthTag(key, nonce, encrypted)
       IN  Ok(MAGIC \o tag \o nonce \o encrypted)

\* faulty variant: one nonce for every call
encryptFixedNonce(key, plaintext, seed) ==
  IF key = NoKey THEN Fail(ErrLocked)
  ELSE LET nonce == randomBytes(NONCE_LENGTH, 0)
           encrypted == gcmCipher(key, nonce, plaintext)
           tag == gcmAuthTag(key, nonce, encrypted)
       IN  Ok(MAGIC \o nonce \o tag \o encrypted)

encrypt(key, plaintext, seed) ==
  IF key = NoKey THEN Fail(ErrLocked)
  ELSE LET nonce == randomBytes(NONCE_LENGTH, seed)
           encrypted == gcmCipher(key, nonce, plaintext)
           tag == gcmAuthTag(key, nonce, encrypted)
       IN  Ok(MAGIC \o nonce \o tag \o encrypted)

\* faulty variant: the error of decipher.final is swallowed
decryptNoAuth(key, ciphertext) ==
  IF key = NoKey THEN Fail(ErrLocked)
  ELSE IF Len(ciphertext) < MAGIC_LENGTH + NONCE_LENGTH + TAG_LENGTH
  THEN Fail(ErrTooShort)
  ELSE IF subarray(ciphertext, 0, MAGIC_LENGTH) # MAGIC
  THEN Fail(ErrFormat)
  ELSE Ok(gcmDecipher(key,
                      subarray(ciphertext, MAGIC_LENGTH, MAGIC_LENGTH + NONCE_LENGTH),
                      subarray(ciphertext, MAGIC_LENGTH + NONCE_LENGTH,
                               MAGIC_LENGTH + NONCE_LENGTH + TAG_LENGTH),
                      subarray(ciphertext, MAGIC_LENGTH + NONCE_LENGTH + TAG_LENGTH,
                               Len(ciphertext))).data)

\* faulty variant: the format checks come before the session check
decryptFormatFirst(key, ciphertext) ==
  IF Len(ciphertext) < MAGIC_LENGTH + NONCE_LENGTH + TAG_LENGTH
  THEN Fail(ErrTooShort)
  ELSE IF subarray(ciphertext, 0, MAGIC_LENGTH) # MAGIC
  THEN Fail(ErrFormat)
  ELSE IF key = NoKey THEN Fail(ErrLocked)
  ELSE LET r == gcmDecipher(key,
                      subarray(ciphertext, MAGIC_LENGTH, MAGIC_LENGTH + NONCE_LENGTH),
                      subarray(ciphertext, MAGIC_LENGTH + NONCE_LENGTH,
                               MAGIC_LENGTH + NONCE_LENGTH + TAG_LENGTH),
                      subarray(ciphertext, MAGIC_LENGTH + NONCE_LENGTH + TAG_LENGTH,
                               Len(ciphertext)))
       IN  IF r.ok THEN Ok(r.data) ELSE Fail(ErrAuth)

\* faulty variant: the length of the buffer is not checked
decryptAnyLength(key, ciphertext) ==
  IF key = NoKey THEN Fail(ErrLocked)
  ELSE IF Len(ciphertext) < MAGIC_LENGTH
          \/ subarray(ciphertext, 0, MAGIC_LENGTH) # MAGIC
  THEN Fail(ErrFormat)
  ELSE Fail(ErrAuth)

decrypt(key, ciphertext) ==
  IF key = NoKey THEN Fail(ErrLocked)
  ELSE IF Len(ciphertext) < MAGIC_LENGTH + NONCE_LENGTH + TAG_LENGTH
  THEN Fail(ErrTooShort)
  ELSE IF subarray(ciphertext, 0, MAGIC_LENGTH) # MAGIC
  THEN Fail(ErrFormat)
  ELSE LET nonce == subarray(ciphertext, MAGIC_LENGTH, MAGIC_LENGTH + NONCE_LENGTH)
           tag == subarray(ciphertext, MAGIC_LENGTH + NONCE_LENGTH,
                           MAGIC_LENGTH + NONCE_LENGTH + TAG_LENGTH)
           encrypted == subarray(ciphertext, MAGIC_LENGTH + NONCE_LENGTH + TAG_LENGTH,
                                 Len(ciphertext))
           r == gcmDecipher(key, nonce, tag, encrypted)
       IN  IF r.ok THEN Ok(r.data) ELSE Fail(ErrAuth)

\* faulty variant: a buffer shorter than the magic is compared as far as it goes
isEncryptedBufferPrefix(buf) ==
  IF Len(buf) < MAGIC_LENGTH THEN buf = subarray(MAGIC, 0, Len(buf))
  ELSE subarray(buf, 0, MAGIC_LENGTH) = MAGIC

isEncryptedBuffer(buf) ==
  IF Len(buf) < MAGIC_LENGTH THEN FALSE
  ELSE subarray(buf, 0, MAGIC_LENGTH) = MAGIC

\* -------------------------------------------------------------- file system
TodosPath == "todos.json"
NoteA == "notes/a.md"
NoteB == "notes/todos/todo-1.md"   \* the note linked to a todo
Draft == "notes/draft.txt"
TempPath == "/tmp/daily_note.md"    \* path.join(os.tmpdir(), 'daily_note_<uuid>.md')
Paths == {TodosPath, NoteA, NoteB, Draft, TempPath}

TodosJson == <<123, 34, 116, 111, 100, 111, 115, 34, 58, 91, 93, 125>>  \* {"todos":[]}
Hello == <<104, 101, 108, 108, 111>>                                    \* hello
MagicText == MAGIC \o <<32, 120>>      \* a note whose text starts with DAILY_ENC_V1
Empty == <<>>
DraftText == <<100>>
\* {"todos":[{"noteFile":"notes/todos/todo-1.md"}]}
TodosLinked ==
  <<123, 34, 116, 111, 100, 111, 115, 34, 58, 91, 123, 34, 110, 111, 116,
    101, 70, 105, 108, 101, 34, 58, 34, 110, 111, 116, 101, 115, 47, 116,
    111, 100, 111, 115, 47, 116, 111, 100, 111, 45, 49, 46, 109, 100, 34,
    125, 93, 125>>
\* {"todos":[{}]}
TodosBare == <<123, 34, 116, 111, 100, 111, 115, 34, 58, 91, 123, 125, 93, 125>>
\* the text getTemplate returns: '# \n'
Template == <<35, 32, 10>>

MsgMismatch == "Passphrases do not match"
MsgSaltMissing == "Salt file missing. Cannot unlock encrypted data."
MsgWrong == "Wrong passphrase"

\* keys typed at a prompt: Enter, Ctrl-C (3), backspace (127) and printable
\* characters
Enter == 13
Typed == { <<Enter>>, <<112, Enter>>, <<113, Enter>>, <<113, 127, 112, Enter>>,
           <<3>>, <<112, 3>> }

VARIABLES
  fs,             \* data files of the directory: path -> bytes or NoFile
  salt,           \* content of .salt, or NoFile
  marker,         \* .encrypted exists
  dataDir,        \* module variable dataDir
  sessionKey,     \* module variable sessionKey
  pc,             \* position of the process
  exitCode,       \* code of process.exit, -1 while running
  error,          \* the error thrown to the caller of setupEncryption
  console,        \* last console.error line
  passphrase,     \* local: the passphrase read at the first prompt
  files,          \* local: collectDataFiles()
  idx,            \* local: loop position
  backups,        \* local: Map path -> original bytes, in insertion order
  orig,           \* history: the data files when the current run started
  encBy,          \* history: path -> passphrase whose key wrote its frame
  restoreFailed,  \* history: paths whose write-back failed in the rollback
  reported,       \* failures made known to the caller: [op, path]
  faults,         \* file-system calls that have failed so far
  run,            \* which of setupEncryption's two paths this process took
  out,            \* result of the caller's last encrypt or decrypt call
  call,           \* that call: [op, arg, key]
  sealed,         \* the last frame encrypt returned: [key, plaintext, frame]
  plain,          \* history: path -> the plaintext its frame was made from
  owner,          \* history: the passphrase of the migration that wrote the marker
  start,          \* history: .salt and .encrypted when the current run started
  keys,           \* session key store: workspace -> key
  active,         \* session key store: the active workspace
  encrypts,       \* history: the last two encrypt calls that returned a frame
  todoList        \* the todo list of todos.json: <<[id, completed], ...>>

vars == <<fs, salt, marker, dataDir, sessionKey, pc, exitCode, error, console,
          passphrase, files, idx, backups, orig, encBy, restoreFailed,
          reported, faults, run, out, call, sealed, plain, owner, start,
          keys, active, encrypts, todoList>>

store == <<keys, active>>
Workspaces == {"personal", "work"}

disk == <<fs, salt, marker>>
locals == <<passphrase, files, idx, backups>>

NoPass == <<-1>>
NoError == [op |-> "", path |-> "", msg |-> ""]
NoOut == [err |-> "none", data |-> <<>>]
NoCall == [op |-> "", arg |-> <<>>, key |-> NoKey]
NoSeal == [key |-> NoKey, plaintext |-> <<>>, frame |-> <<>>]

existsSync(f, p) == f[p] # NoFile

\* fs.writeFileSync that fails leaves the old bytes or a torn prefix
FailedWrite(old, new) == {old, SubSeq(new, 1, Len(new) \div 2)}

\* promptPassphrase: the data handler run over the typed characters
RECURSIVE promptHandler(_, _, _)
promptHandler(typed, i, acc) ==
  IF i > Len(typed) THEN [exit |-> FALSE, value |-> acc]
  ELSE IF typed[i] = 13 \/ typed[i] = 10 THEN [exit |-> FALSE, value |-> acc]
  ELSE IF typed[i] = 3 THEN [exit |-> TRUE, value |-> <<>>]
  ELSE IF typed[i] = 127 \/ typed[i] = 8
  THEN promptHandler(typed, i + 1,
                     IF acc = <<>> THEN acc ELSE SubSeq(acc, 1, Len(acc) - 1))
  ELSE promptHandler(typed, i + 1, Append(acc, typed[i]))

promptPassphrase(typed) == promptHandler(typed, 1, <<>>)

\* collectDataFiles: todos.json, then every .md file below notes/
Entries(dir) ==
  IF dir = "notes" THEN <<NoteA, Draft, "notes/todos">>
  ELSE IF dir = "notes/todos" THEN <<NoteB>>
  ELSE <<>>

\* faulty variant: sub-directories are not entered
RECURSIVE walkEntriesFlat(_, _, _)
walkEntriesFlat(f, entries, i) ==
  IF i > Len(entries) THEN <<>>
  ELSE LET e == entries[i]
           here == IF e \in {"notes", "notes/todos"} THEN <<>>
                   ELSE IF existsSync(f, e) /\ e \in {NoteA, NoteB} THEN <<e>>
                   ELSE <<>>
       IN  here \o walkEntriesFlat(f, entries, i + 1)

RECURSIVE walkEntries(_, _, _)
walkEntries(f, entries, i) ==
  IF i > Len(entries) THEN <<>>
  ELSE LET e == entries[i]
           here == IF e \in {"notes", "notes/todos"} THEN walkEntries(f, Entries(e), 1)
                   ELSE IF existsSync(f, e) /\ e \in {NoteA, NoteB} THEN <<e>>
                   ELSE <<>>
       IN  here \o walkEntries(f, entries, i + 1)

collectDataFiles(f) ==
  (IF existsSync(f, TodosPath) THEN <<TodosPath>> ELSE <<>>)
    \o walkEntries(f, Entries("notes"), 1)

\* faulty variant: the bytes of the file are returned as they are
decryptFileRaw(key, f, p) == Ok(f[p])

\* faulty variant: every file is handed to decrypt
decryptFileAlways(key, f, p) == decrypt(key, f[p])

decryptFile(key, f, p) ==
  IF ~isEncryptedBuffer(f[p]) THEN Ok(f[p]) ELSE decrypt(key, f[p])

\* -------------------------------------------------------------------- Init
Init ==
  /\ fs \in { f \in [Paths -> {NoFile, TodosJson, Hello, MagicText, Empty, DraftText}] :
                /\ f[TodosPath] \in {NoFile, TodosJson}
                /\ f[NoteA] \in {NoFile, Hello, MagicText}
                /\ f[NoteB] \in {NoFile, Empty}
                /\ f[Draft] = DraftText
                /\ f[TempPath] = NoFile }
  /\ salt = NoFile
  /\ marker = FALSE
  /\ dataDir = ""
  /\ sessionKey = NoKey
  /\ pc = "main"
  /\ exitCode = -1
  /\ error = NoError
  /\ console = ""
  /\ passphrase = NoPass
  /\ files = <<>>
  /\ idx = 0
  /\ backups = <<>>
  /\ orig = fs
  /\ encBy = [p \in Paths |-> NoPass]
  /\ restoreFailed = {}
  /\ reported = {}
  /\ run = ""
  /\ faults = 0
  /\ call = NoCall
  /\ sealed = NoSeal
  /\ out = NoOut
  /\ plain = [p \in Paths |-> NoFile]
  /\ owner = NoPass
  /\ start = [salt |-> NoFile, marker |-> FALSE]
  /\ keys = [w \in Workspaces |-> NoKey]
  /\ active = ""
  /\ encrypts = <<>>
  /\ todoList = <<>>

\* faulty variant: the marker is not looked at
isEncryptionEnabledNever(dir, markerExists) == FALSE

isEncryptionEnabled(dir, markerExists) == dir # "" /\ markerExists

exit(code, msg) ==
  /\ pc' = "exited"
  /\ exitCode' = code
  /\ console' = msg

\* ----------------------------------------------------------------- storage
\* the todo stores of the model: no todo, or one todo linked to its note
OpenTodo == [noteFile |-> NoteB]
BareTodo == [noteFile |-> ""]

\* JSON.parse of the text of todos.json, and JSON.stringify of a store
JSONparse(text) ==
  IF text = TodosJson THEN [ok |-> TRUE, todos |-> <<>>]
  ELSE IF text = TodosLinked THEN [ok |-> TRUE, todos |-> <<OpenTodo>>]
  ELSE IF text = TodosBare THEN [ok |-> TRUE, todos |-> <<BareTodo>>]
  ELSE [ok |-> FALSE, todos |-> <<>>]

JSONstringify(todos) ==
  IF todos = <<>> THEN TodosJson
  ELSE IF todos[1].noteFile = "" THEN TodosBare
  ELSE TodosLinked

\* loadTodos: the list returned and the error the catch block logged
loadTodos(key, f) ==
  IF ~existsSync(f, TodosPath) THEN [todos |-> <<>>, logged |-> ""]
  ELSE LET raw == f[TodosPath]
           data == IF isEncryptedBuffer(raw) THEN decrypt(key, raw) ELSE Ok(raw)
           parsed == JSONparse(data.data)
       IN  IF data.err # "" THEN [todos |-> <<>>, logged |-> data.err]
           ELSE IF ~parsed.ok THEN [todos |-> <<>>, logged |-> "SyntaxError"]
           ELSE [todos |-> parsed.todos, logged |-> ""]

\* faulty variant: the session key, not the marker, selects the frame form
saveTodosByKey(key, dir, markerExists, todos, seed) ==
  IF key # NoKey THEN encrypt(key, JSONstringify(todos), seed)
  ELSE Ok(JSONstringify(todos))

\* saveTodos: the bytes handed to writeFileSync, or the error rethrown
saveTodos(key, dir, markerExists, todos, seed) ==
  IF isEncryptionEnabled(dir, markerExists)
  THEN encrypt(key, JSONstringify(todos), seed)
  ELSE Ok(JSONstringify(todos))

\* showNote: the text printed for the bytes of a note
noteContent(key, raw) ==
  IF isEncryptedBuffer(raw) THEN decrypt(key, raw) ELSE Ok(raw)

\* ------------------------------------------------------------------ editor
\* spawnSync(editor, [path]): the editor leaves the bytes 'edited' in the file
\* and ends with 'status'.  A result is the file system when the function
\* has returned or thrown, the error thrown, the value returned and the path
\* the editor was given ("" when it was not started).
unlinkIfExists(f, p) == [f EXCEPT ![p] = NoFile]

\* openNoteInEditor, encrypted branch: the try block
\* faulty variant: the edited text is written back as it is
tryOpenNoteUtf8(key, f, p, initial, status, edited, seed) ==
  LET content == IF initial # NoFile THEN Ok(initial)
                 ELSE IF ~existsSync(f, p) THEN Fail("ENOENT")
                 ELSE noteContent(key, f[p])
      opened == [f EXCEPT ![TempPath] = edited]
  IN  IF content.err # ""
      THEN [fs |-> f, err |-> content.err, ok |-> FALSE, arg |-> ""]
      ELSE IF status # 0
      THEN [fs |-> opened, err |-> "", ok |-> FALSE, arg |-> TempPath]
      ELSE [fs |-> [opened EXCEPT ![p] = edited], err |-> "", ok |-> TRUE,
            arg |-> TempPath]

tryOpenNote(key, f, p, initial, status, edited, seed) ==
  LET content == IF initial # NoFile THEN Ok(initial)
                 ELSE IF ~existsSync(f, p) THEN Fail("ENOENT")
                 ELSE noteContent(key, f[p])
      opened == [f EXCEPT ![TempPath] = edited]
      enc == encrypt(key, edited, seed)
  IN  IF content.err # ""
      THEN [fs |-> f, err |-> content.err, ok |-> FALSE, arg |-> ""]
      ELSE IF status # 0
      THEN [fs |-> opened, err |-> "", ok |-> FALSE, arg |-> TempPath]
      ELSE IF enc.err # ""
      THEN [fs |-> opened, err |-> enc.err, ok |-> FALSE, arg |-> TempPath]
      ELSE [fs |-> [opened EXCEPT ![p] = enc.data], err |-> "", ok |-> TRUE,
            arg |-> TempPath]

\* faulty variant: the temporary file is removed on the returning paths only
openNoteInEditorNoFinally(key, dir, markerExists, f, p, initial, status, edited, seed) ==
  IF isEncryptionEnabled(dir, markerExists)
  THEN LET t == tryOpenNote(key, f, p, initial, status, edited, seed)
       IN  IF t.err = "" THEN [t EXCEPT !.fs = unlinkIfExists(t.fs, TempPath)]
           ELSE t
  ELSE [fs |-> [f EXCEPT ![p] = edited], err |-> "", ok |-> status = 0,
        arg |-> p]

\* openNoteInEditor: try { ... } finally { unlinkSync(tempPath) }
openNoteInEditor(key, dir, markerExists, f, p, initial, status, edited, seed) ==
  IF isEncryptionEnabled(dir, markerExists)
  THEN LET t == tryOpenNote(key, f, p, initial, status, edited, seed)
       IN  [t EXCEPT !.fs = unlinkIfExists(t.fs, TempPath)]
  ELSE [fs |-> [f EXCEPT ![p] = edited], err |-> "", ok |-> status = 0,
        arg |-> p]

\* saveTodos applied to a file system: the error is rethrown
writeTodos(key, dir, markerExists, f, todos, seed) ==
  LET w == saveTodos(key, dir, markerExists, todos, seed)
  IN  IF w.err # "" THEN [fs |-> f, err |-> w.err]
      ELSE [fs |-> [f EXCEPT ![TodosPath] = w.data], err |-> ""]

\* editTodo, after the editor has ended with status 0: a note with text is
\* kept and the list saved, an empty one is removed and unlinked from the todo
keepOrDropNote(key, dir, markerExists, f, todos, edited, seed) ==
  IF trim(edited) # <<>>
  THEN writeTodos(key, dir, markerExists, f, todos, seed)
  ELSE writeTodos(key, dir, markerExists, unlinkIfExists(f, NoteB),
                  <<BareTodo>>, seed)

\* editTodo, encrypted branch: the try block
tryEditTodo(key, dir, markerExists, f, todos, initial, status, edited, seed) ==
  LET content == IF initial # NoFile THEN Ok(initial)
                 ELSE noteContent(key, f[NoteB])
      opened == [f EXCEPT ![TempPath] = edited]
      enc == encrypt(key, edited, seed)
      kept == keepOrDropNote(key, dir, markerExists,
                IF trim(edited) # <<>> THEN [opened EXCEPT ![NoteB] = enc.data]
                ELSE opened, todos, edited, seed)
  IN  IF content.err # ""
      THEN [fs |-> f, err |-> content.err, ok |-> FALSE, arg |-> ""]
      ELSE IF status # 0
      THEN [fs |-> opened, err |-> "", ok |-> FALSE, arg |-> TempPath]
      ELSE IF trim(edited) # <<>> /\ enc.err # ""
      THEN [fs |-> opened, err |-> enc.err, ok |-> FALSE, arg |-> TempPath]
      ELSE [fs |-> kept.fs, err |-> kept.err, ok |-> kept.err = "",
            arg |-> TempPath]

\* editTodo('1'): findTodo, the note path of the todo, then the editor
editTodo(key, dir, markerExists, f, status, edited, seed) ==
  LET found == loadTodos(key, f).todos
      todos == <<OpenTodo>>
      initial == IF existsSync(f, NoteB) THEN NoFile ELSE Template
  IN  IF found = <<>>
      THEN [fs |-> f, err |-> "", ok |-> FALSE, arg |-> ""]
      ELSE IF isEncryptionEnabled(dir, markerExists)
      THEN LET t == tryEditTodo(key, dir, markerExists, f, todos, initial,
                                status, edited, seed)
           IN  [t EXCEPT !.fs = unlinkIfExists(t.fs, TempPath)]
      ELSE LET opened == [f EXCEPT ![NoteB] = edited]
               kept == keepOrDropNote(key, dir, markerExists, opened, todos,
                                      edited, seed)
           IN  IF status # 0
               THEN [fs |-> opened, err |-> "", ok |-> FALSE, arg |-> NoteB]
               ELSE [fs |-> kept.fs, err |-> kept.err, ok |-> kept.err = "",
                     arg |-> NoteB]

\* addTodo: the new todo is put into the list loadTodos returned and the
\* list is saved; deleteTodo('1') saves the list without its todo
addTodo(key, dir, markerExists, f, seed) ==
  writeTodos(key, dir, markerExists, f, <<BareTodo>>, seed)

deleteTodo(key, dir, markerExists, f, todos, seed) ==
  writeTodos(key, dir, markerExists,
             IF todos[1].noteFile # "" THEN unlinkIfExists(f, todos[1].noteFile)
             ELSE f,
             <<>>, seed)

\* ----------------------------------------------------------------- actions
\* index.ts main: initEncryption(dir), then setupEncryption() up to its
\* first prompt; with the marker present setupEncryption is unlockSession
main ==
  /\ pc = "main"
  /\ dataDir' = "ws"
  /\ pc' = IF isEncryptionEnabled("ws", marker) THEN "unlock" ELSE "setup_pass"
  /\ run' = IF isEncryptionEnabled("ws", marker) THEN "unlock" ELSE "setup"
  /\ orig' = fs
  /\ UNCHANGED <<disk, sessionKey, exitCode, error, console, locals, encBy,
                 restoreFailed, reported, faults, out, call, sealed>>
  /\ start' = [salt |-> salt, marker |-> marker]
  /\ UNCHANGED <<plain, owner, store, encrypts, todoList>>

\* faulty variant: the empty passphrase is let through to the confirmation
SetupPromptPassphraseAny ==
  /\ pc = "setup_pass"
  /\ \E typed \in Typed :
       LET r == promptPassphrase(typed)
       IN  IF r.exit
           THEN exit(1, "") /\ UNCHANGED passphrase
           ELSE /\ passphrase' = r.value
                /\ pc' = "setup_confirm"
                /\ UNCHANGED <<exitCode, console>>
  /\ UNCHANGED <<disk, dataDir, sessionKey, error, files, idx, backups, orig,
                 encBy, restoreFailed, reported, faults, run, out, call, sealed>>
  /\ UNCHANGED <<plain, owner, start, store, encrypts, todoList>>

\* setupEncryption: 'Enter new passphrase: '
SetupPromptPassphrase ==
  /\ pc = "setup_pass"
  /\ \E typed \in Typed :
       LET r == promptPassphrase(typed)
       IN  IF r.exit
           THEN exit(1, "") /\ UNCHANGED passphrase
           ELSE IF r.value = <<>>
           THEN exit(1, "Passphrase cannot be empty") /\ UNCHANGED passphrase
           ELSE /\ passphrase' = r.value
                /\ pc' = "setup_confirm"
                /\ UNCHANGED <<exitCode, console>>
  /\ UNCHANGED <<disk, dataDir, sessionKey, error, files, idx, backups, orig,
                 encBy, restoreFailed, reported, faults, run, out, call, sealed>>
  /\ UNCHANGED <<plain, owner, start, store, encrypts, todoList>>

\* setupEncryption: 'Confirm passphrase: '
SetupPromptConfirm ==
  /\ pc = "setup_confirm"
  /\ \E typed \in Typed :
       LET r == promptPassphrase(typed)
       IN  IF r.exit
           THEN exit(1, "")
           ELSE IF passphrase # r.value
           THEN exit(1, MsgMismatch)
           ELSE /\ pc' = "setup_key"
                /\ UNCHANGED <<exitCode, console>>
  /\ UNCHANGED <<disk, dataDir, sessionKey, error, locals, orig, encBy,
                 restoreFailed, reported, faults, run, out, call, sealed>>
  /\ UNCHANGED <<plain, owner, start, store, encrypts, todoList>>

\* a file-system call fails
fault ==
  /\ faults < MaxFaults
  /\ faults' = faults + 1

\* getOrCreateSalt: the salt read from .salt, or a new one written to it
getOrCreateSalt(saltFile, seed) ==
  IF saltFile # NoFile
  THEN [salt |-> fromHex(trim(saltFile)), file |-> saltFile]
  ELSE LET s == randomBytes(SALT_LENGTH, seed)
       IN  [salt |-> s, file |-> toHex(s)]

\* setupEncryption: getOrCreateSalt, deriveKey, collectDataFiles.  A failing
\* write of .salt throws before the try block is entered.
SetupDeriveKey ==
  /\ pc = "setup_key"
  /\ \/ /\ \E seed \in 0..MaxSaltSeed :
             LET g == getOrCreateSalt(salt, seed)
             IN  /\ salt' = g.file
                 /\ sessionKey' = deriveKey(passphrase, g.salt)
        /\ files' = collectDataFiles(fs)
        /\ backups' = <<>>
        /\ idx' = 1
        /\ pc' = "setup_encrypt"
        /\ UNCHANGED <<error, reported, faults>>
     \/ /\ salt = NoFile
        /\ fault
        /\ error' = [op |-> "write", path |-> ".salt", msg |-> ErrIO]
        /\ reported' = reported \cup {[op |-> "write", path |-> ".salt"]}
        /\ pc' = "thrown"
        /\ UNCHANGED <<salt, sessionKey, files, backups, idx>>
  /\ UNCHANGED <<fs, marker, dataDir, exitCode, console, passphrase, orig,
                 encBy, restoreFailed, run, out, call, sealed>>
  /\ UNCHANGED <<plain, owner, start, store, encrypts, todoList>>

catch(op, path) ==
  /\ fault
  /\ error' = [op |-> op, path |-> path, msg |-> ErrIO]
  /\ pc' = "rollback"
  /\ idx' = 1

\* faulty variant: a file already in frame form is encrypted once more
encryptFileAgain(key, content, seed) == encrypt(key, content, seed).data

\* encryptFile: the bytes the file holds when the call has returned
encryptFile(key, content, seed) ==
  IF isEncryptedBuffer(content) THEN content
  ELSE encrypt(key, content, seed).data

\* setupEncryption, loop body: backups.set(filePath, readFileSync(filePath));
\* encryptFile(filePath)
SetupEncryptFile ==
  /\ pc = "setup_encrypt"
  /\ idx <= Len(files)
  /\ LET p == files[idx]
         plaintext == fs[p]
         saved == Append(backups, [path |-> p, original |-> plaintext])
     IN  \/ \* readFileSync for the backup throws
            /\ catch("read", p)
            /\ UNCHANGED <<fs, backups, encBy, plain>>
         \/ \* encryptFile returns
            /\ \E seed \in 0..MaxNonceSeed :
                 fs' = [fs EXCEPT ![p] = encryptFile(sessionKey, plaintext, seed)]
            /\ encBy' = [encBy EXCEPT ![p] =
                           IF isEncryptedBuffer(plaintext) THEN @ ELSE passphrase]
            /\ plain' = [plain EXCEPT ![p] =
                           IF isEncryptedBuffer(plaintext) THEN @ ELSE plaintext]
            /\ backups' = saved
            /\ idx' = idx + 1
            /\ UNCHANGED <<error, pc, faults>>
         \/ \* encryptFile: writeFileSync throws
            /\ ~isEncryptedBuffer(plaintext)
            /\ \E seed \in 0..MaxNonceSeed :
                 \E left \in FailedWrite(plaintext,
                                         encryptFile(sessionKey, plaintext, seed)) :
                   fs' = [fs EXCEPT ![p] = left]
            /\ backups' = saved
            /\ catch("write", p)
            /\ UNCHANGED <<encBy, plain>>
  /\ UNCHANGED <<salt, marker, dataDir, sessionKey, exitCode, console,
                 passphrase, files, orig, restoreFailed, reported, run, out, call, sealed>>
  /\ UNCHANGED <<owner, start, store, encrypts, todoList>>

\* faulty variant: the loop is left one file early
loopDoneEarly(i, list) == i >= Len(list)

\* the for loop over files has ended
loopDone(i, list) == i > Len(list)

\* setupEncryption: writeFileSync(encryptedMarkerPath(), '') after the loop
SetupWriteMarker ==
  /\ pc = "setup_encrypt"
  /\ loopDone(idx, files)
  /\ \/ /\ marker' = TRUE
        /\ pc' = "returned"
        /\ UNCHANGED <<error, idx, faults>>
     \/ /\ catch("write", ".encrypted")
        /\ UNCHANGED marker
  /\ UNCHANGED <<fs, salt, dataDir, sessionKey, exitCode, console, passphrase,
                 files, backups, orig, encBy, restoreFailed, reported, run, out, call, sealed>>
  /\ owner' = IF marker' THEN passphrase ELSE owner
  /\ UNCHANGED <<plain, start, store, encrypts, todoList>>

\* faulty variant: the catch block writes back what the file holds now
restoreBytesCurrent(b) == fs[b.path]

\* the bytes the catch block writes back for one entry of backups
restoreBytes(b) == b.original

\* catch block, loop body: try { writeFileSync(filePath, original) }
\* catch { /* ignore */ }
RollbackRestore ==
  /\ pc = "rollback"
  /\ idx <= Len(backups)
  /\ LET b == backups[idx]
     IN  \/ /\ fs' = [fs EXCEPT ![b.path] = restoreBytes(b)]
            /\ UNCHANGED <<restoreFailed, faults>>
         \/ /\ fault
            /\ \E left \in FailedWrite(fs[b.path], restoreBytes(b)) :
                 fs' = [fs EXCEPT ![b.path] = left]
            /\ restoreFailed' = restoreFailed \cup {b.path}
  /\ encBy' = [p \in Paths |-> IF fs'[p] = fs[p] THEN encBy[p] ELSE NoPass]
  /\ idx' = idx + 1
  /\ UNCHANGED <<salt, marker, dataDir, sessionKey, pc, exitCode, error,
                 console, passphrase, files, backups, orig, reported, run, out, call, sealed>>
  /\ plain' = [p \in Paths |-> IF fs'[p] = fs[p] THEN plain[p] ELSE NoFile]
  /\ UNCHANGED <<owner, start, store, encrypts, todoList>>

\* faulty variant: the catch block leaves the derived key in place
keyAfterRollbackKept == sessionKey

\* the value sessionKey is given at the end of the catch block
keyAfterRollback == NoKey

\* catch block, after the loop: sessionKey = null; throw error
RollbackThrow ==
  /\ pc = "rollback"
  /\ idx > Len(backups)
  /\ sessionKey' = keyAfterRollback
  /\ reported' = reported \cup {[op |-> error.op, path |-> error.path]}
  /\ pc' = "thrown"
  /\ UNCHANGED <<disk, dataDir, exitCode, error, console, locals, orig, encBy,
                 restoreFailed, faults, run, out, call, sealed>>
  /\ UNCHANGED <<plain, owner, start, store, encrypts, todoList>>

\* faulty variant: the failing branch exits without clearing sessionKey
unlockVerifyKeepsKey(key, f) ==
  IF existsSync(f, TodosPath) /\ isEncryptedBuffer(f[TodosPath])
     /\ decrypt(key, f[TodosPath]).err # ""
  THEN [exit |-> TRUE, sessionKey |-> key]
  ELSE [exit |-> FALSE, sessionKey |-> key]

\* unlockSession, after deriveKey: the key is tried on todos.json when that
\* file exists in frame form; a failing decrypt clears sessionKey and exits
unlockVerify(key, f) ==
  IF existsSync(f, TodosPath) /\ isEncryptedBuffer(f[TodosPath])
     /\ decrypt(key, f[TodosPath]).err # ""
  THEN [exit |-> TRUE, sessionKey |-> NoKey]
  ELSE [exit |-> FALSE, sessionKey |-> key]

\* faulty variant: a missing .salt is replaced by a new one
unlockSessionNewSalt ==
  /\ pc = "unlock"
  /\ \E typed \in Typed :
       LET r == promptPassphrase(typed)
           g == getOrCreateSalt(salt, 0)
           v == unlockVerify(deriveKey(r.value, g.salt), fs)
       IN  /\ salt' = g.file
           /\ IF r.exit
              THEN exit(1, "") /\ UNCHANGED <<sessionKey, passphrase>>
              ELSE /\ passphrase' = r.value
                   /\ sessionKey' = v.sessionKey
                   /\ IF v.exit
                      THEN exit(1, MsgWrong)
                      ELSE pc' = "returned" /\ UNCHANGED <<exitCode, console>>
  /\ UNCHANGED <<fs, marker, dataDir, error, files, idx, backups, orig, encBy,
                 restoreFailed, reported, faults, run, out, call, sealed>>
  /\ UNCHANGED <<plain, owner, start, store, encrypts, todoList>>

unlockSession ==
  /\ pc = "unlock"
  /\ IF salt = NoFile
     THEN exit(1, MsgSaltMissing) /\ UNCHANGED <<sessionKey, passphrase>>
     ELSE \E typed \in Typed :
            LET r == promptPassphrase(typed)
                v == unlockVerify(deriveKey(r.value, fromHex(trim(salt))), fs)
            IN  IF r.exit
                THEN exit(1, "") /\ UNCHANGED <<sessionKey, passphrase>>
                ELSE /\ passphrase' = r.value
                     /\ sessionKey' = v.sessionKey
                     /\ IF v.exit
                        THEN exit(1, MsgWrong)
                        ELSE pc' = "returned" /\ UNCHANGED <<exitCode, console>>
  /\ UNCHANGED <<disk, dataDir, error, files, idx, backups, orig, encBy,
                 restoreFailed, reported, faults, run, out, call, sealed>>
  /\ UNCHANGED <<plain, owner, start, store, encrypts, todoList>>

\* index.ts main: startREPL() once setupEncryption has returned
startREPL ==
  /\ pc = "returned"
  /\ pc' = "repl"
  /\ UNCHANGED <<disk, dataDir, sessionKey, exitCode, error, console, locals,
                 orig, encBy, restoreFailed, reported, faults, run, out, call, sealed>>
  /\ UNCHANGED <<plain, owner, start, store, encrypts, todoList>>

\* the caller goes on after setupEncryption threw
CallEncrypt ==
  /\ pc = "thrown"
  /\ \E seed \in 0..MaxNonceSeed :
       /\ out' = encrypt(sessionKey, Hello, seed)
       /\ call' = [op |-> "encrypt", arg |-> Hello, key |-> sessionKey]
       /\ sealed' = IF out'.err = ""
                    THEN [key |-> sessionKey, plaintext |-> Hello, frame |-> out'.data]
                    ELSE sealed
  /\ UNCHANGED <<disk, dataDir, sessionKey, pc, exitCode, error, console,
                 locals, orig, encBy, restoreFailed, reported, faults, run>>
  /\ UNCHANGED <<plain, owner, start, store, encrypts, todoList>>

CallDecrypt ==
  /\ pc = "thrown"
  /\ \E p \in Paths :
       /\ existsSync(fs, p)
       /\ out' = decrypt(sessionKey, fs[p])
       /\ call' = [op |-> "decrypt", arg |-> fs[p], key |-> sessionKey]
  /\ UNCHANGED <<disk, dataDir, sessionKey, pc, exitCode, error, console,
                 locals, orig, encBy, restoreFailed, reported, faults, run,
                 sealed>>
  /\ UNCHANGED <<plain, owner, start, store, encrypts, todoList>>

\* a new process: the module variables start from their initialisers
fresh ==
  /\ pc' = "main"
  /\ dataDir' = ""
  /\ sessionKey' = NoKey
  /\ exitCode' = -1
  /\ error' = NoError
  /\ console' = ""
  /\ passphrase' = NoPass
  /\ files' = <<>>
  /\ idx' = 0
  /\ backups' = <<>>
  /\ orig' = fs
  /\ restoreFailed' = {}
  /\ reported' = {}
  /\ run' = ""
  /\ out' = NoOut
  /\ call' = NoCall
  /\ sealed' = NoSeal
  /\ UNCHANGED <<disk, encBy, faults>>
  /\ start' = [salt |-> salt, marker |-> marker]
  /\ keys' = [w \in Workspaces |-> NoKey]
  /\ active' = ""
  /\ UNCHANGED <<plain, owner, encrypts, todoList>>

\* between two launches the .salt file of an encrypted directory is lost
\* (deleted, or left behind when the directory was copied)
SaltLost ==
  /\ pc = "main"
  /\ marker
  /\ salt # NoFile
  /\ salt' = NoFile
  /\ UNCHANGED <<fs, marker, dataDir, sessionKey, pc, exitCode, error, console,
                 locals, orig, encBy, restoreFailed, reported, faults, run, out,
                 call, sealed, plain, owner, start, store, encrypts, todoList>>

\* 'exit' typed in the REPL, and the next launch
Quit ==
  /\ pc = "repl"
  /\ fresh

\* the process is killed between two steps of setupEncryption or
\* unlockSession, and launched again
Kill ==
  /\ pc \in {"setup_pass", "setup_confirm", "setup_key", "setup_encrypt",
            "rollback", "unlock", "returned"}
  /\ fresh

\* the next launch after process.exit(1) or an uncaught error
Restart ==
  /\ pc \in {"exited", "thrown"}
  /\ fresh

Next ==
  \/ main
  \/ SetupPromptPassphrase
  \/ SetupPromptConfirm
  \/ SetupDeriveKey
  \/ SetupEncryptFile
  \/ SetupWriteMarker
  \/ RollbackRestore
  \/ RollbackThrow
  \/ unlockSession
  \/ startREPL
  \/ CallEncrypt
  \/ CallDecrypt
  \/ SaltLost
  \/ Quit
  \/ Kill
  \/ Restart

Spec == Init /\ [][Next]_vars

\* ------------------------------------------------------------- codec tests
\* The exported codec functions called directly, as the unit tests do:
\* the session key is set by _initSessionForTest and cleared again, and
\* encrypt and decrypt are applied to buffers drawn from bounded sets.
lifecycle == <<fs, salt, marker, dataDir, pc, exitCode, error, console,
               passphrase, files, idx, backups, orig, encBy, restoreFailed,
               reported, faults, run, plain, owner, start, keys, active, todoList>>

Plaintexts == {Empty, Hello, TodosJson, MagicText, <<0, 255, 171, 18, 52>>}
RawBuffers == {Empty, Hello, MAGIC, [i \in 1..50 |-> 120],
               MAGIC \o [i \in 1..27 |-> 120], [i \in 1..39 |-> 120]}
TestPassphrases == {<<112>>, <<113>>}

CodecInit ==
  /\ fs = [p \in Paths |-> IF p = Draft THEN DraftText ELSE NoFile]
  /\ salt = NoFile
  /\ marker = FALSE
  /\ dataDir = "ws"
  /\ sessionKey = NoKey
  /\ pc = "test"
  /\ exitCode = -1
  /\ error = NoError
  /\ console = ""
  /\ passphrase = NoPass
  /\ files = <<>>
  /\ idx = 0
  /\ backups = <<>>
  /\ orig = fs
  /\ encBy = [p \in Paths |-> NoPass]
  /\ restoreFailed = {}
  /\ reported = {}
  /\ faults = 0
  /\ run = ""
  /\ out = NoOut
  /\ call = NoCall
  /\ sealed = NoSeal
  /\ plain = [p \in Paths |-> NoFile]
  /\ owner = NoPass
  /\ start = [salt |-> NoFile, marker |-> FALSE]
  /\ keys = [w \in Workspaces |-> NoKey]
  /\ active = ""
  /\ encrypts = <<>>
  /\ todoList = <<>>

\* a test ends with the call whose result it inspects
CodecLast == {"decrypt", "isEncryptedBuffer"}

_initSessionForTest(pass) == scryptSync(pass, [i \in 1..32 |-> 0], KEY_LENGTH)

\* one test: the key is set or cleared, buffers are encrypted, then one
\* decrypt is made and the next test starts from the beginning
TestInitSession ==
  /\ call.op \notin CodecLast
  /\ \E pass \in TestPassphrases : sessionKey' = _initSessionForTest(pass)
  /\ UNCHANGED <<lifecycle, out, call, sealed, encrypts>>

TestClearSession ==
  /\ call.op \notin CodecLast
  /\ sessionKey' = NoKey
  /\ UNCHANGED <<lifecycle, out, call, sealed, encrypts>>

TestEncrypt ==
  /\ call.op \notin CodecLast
  /\ \E plaintext \in Plaintexts, seed \in 0..MaxCallSeed :
       /\ out' = encrypt(sessionKey, plaintext, seed)
       /\ call' = [op |-> "encrypt", arg |-> plaintext, key |-> sessionKey]
       /\ sealed' = IF out'.err = ""
                    THEN [key |-> sessionKey, plaintext |-> plaintext,
                          frame |-> out'.data]
                    ELSE sealed
       /\ encrypts' =
            LET this == [key |-> sessionKey, plaintext |-> plaintext,
                         frame |-> out'.data,
                         draw |-> randomBytes(NONCE_LENGTH, seed)]
            IN  IF out'.err # "" THEN encrypts
                ELSE IF encrypts = <<>> THEN <<this>>
                ELSE IF encrypts[Len(encrypts)].key # sessionKey THEN <<this>>
                ELSE <<encrypts[Len(encrypts)], this>>
  /\ UNCHANGED <<lifecycle, sessionKey>>

\* decrypt(encrypt(p))
TestDecryptSealed ==
  /\ call.op \notin CodecLast
  /\ sealed # NoSeal
  /\ out' = decrypt(sessionKey, sealed.frame)
  /\ call' = [op |-> "decrypt", arg |-> sealed.frame, key |-> sessionKey]
  /\ encrypts' = <<>>
  /\ UNCHANGED <<lifecycle, sessionKey, sealed>>

\* decrypt of a frame with one byte changed
TestDecryptTampered ==
  /\ call.op \notin CodecLast
  /\ sealed # NoSeal
  /\ \E pos \in 1..Len(sealed.frame), delta \in {1, 128, 255} :
       LET buf == [sealed.frame EXCEPT ![pos] = (@ + delta) % 256]
       IN  /\ out' = decrypt(sessionKey, buf)
           /\ call' = [op |-> "decrypt", arg |-> buf, key |-> sessionKey]
  /\ encrypts' = <<>>
  /\ UNCHANGED <<lifecycle, sessionKey, sealed>>

\* decrypt of a buffer that encrypt did not make
TestDecryptRaw ==
  /\ call.op \notin CodecLast
  /\ \E buf \in RawBuffers :
       /\ out' = decrypt(sessionKey, buf)
       /\ call' = [op |-> "decrypt", arg |-> buf, key |-> sessionKey]
  /\ encrypts' = <<>>
  /\ UNCHANGED <<lifecycle, sessionKey, sealed>>

\* isEncryptedBuffer of a buffer, of a frame and of a frame with one byte
\* changed: out holds <<1>> for true and <<0>> for false
TestIsEncryptedBuffer ==
  /\ call.op \notin CodecLast
  /\ \E buf \in RawBuffers \cup
                 (IF sealed = NoSeal THEN {}
                  ELSE {sealed.frame} \cup
                       {[sealed.frame EXCEPT ![pos] = (@ + 1) % 256] :
                          pos \in 1..(MAGIC_LENGTH + 1)}) :
       /\ out' = Ok(IF isEncryptedBuffer(buf) THEN <<1>> ELSE <<0>>)
       /\ call' = [op |-> "isEncryptedBuffer", arg |-> buf, key |-> sessionKey]
  /\ encrypts' = <<>>
  /\ UNCHANGED <<lifecycle, sessionKey, sealed>>

\* beforeEach of the next test
TestReset ==
  /\ call.op \in CodecLast
  /\ sessionKey' = NoKey
  /\ out' = NoOut
  /\ call' = NoCall
  /\ sealed' = NoSeal
  /\ encrypts' = <<>>
  /\ UNCHANGED lifecycle

CodecNext ==
  \/ TestInitSession
  \/ TestClearSession
  \/ TestEncrypt
  \/ TestDecryptSealed
  \/ TestDecryptTampered
  \/ TestDecryptRaw
  \/ TestIsEncryptedBuffer
  \/ TestReset

CodecSpec == CodecInit /\ [][CodecNext]_vars

\* ----------------------------------------------------------- storage tests
\* The file and storage functions called directly, as the integration tests
\* do: the test writes files (plain, or encrypt(...) of a text) and the
\* marker, sets or clears the session key, and calls the function under test.
StorageInit ==
  /\ fs = [p \in Paths |-> IF p = Draft THEN DraftText ELSE NoFile]
  /\ salt = NoFile
  /\ marker = FALSE
  /\ dataDir = "ws"
  /\ sessionKey = NoKey
  /\ pc = "storage"
  /\ exitCode = -1
  /\ error = NoError
  /\ console = ""
  /\ passphrase = NoPass
  /\ files = <<>>
  /\ idx = 0
  /\ backups = <<>>
  /\ orig = fs
  /\ encBy = [p \in Paths |-> NoPass]
  /\ restoreFailed = {}
  /\ reported = {}
  /\ faults = 0
  /\ run = ""
  /\ out = NoOut
  /\ call = NoCall
  /\ sealed = NoSeal
  /\ plain = [p \in Paths |-> NoFile]
  /\ owner = NoPass
  /\ start = [salt |-> NoFile, marker |-> FALSE]
  /\ keys = [w \in Workspaces |-> NoKey]
  /\ active = ""
  /\ encrypts = <<>>
  /\ todoList = <<>>

storageFrame == <<salt, dataDir, pc, exitCode, error, passphrase, files, idx, backups,
                  encBy, restoreFailed, reported, faults, run, plain, owner,
                  start, keys, active, encrypts, todoList>>

StoragePaths == {TodosPath, NoteA, NoteB}
Fixture(p) ==
  IF p = TodosPath THEN {TodosJson, TodosLinked}
  ELSE IF p = NoteA THEN {Hello, Empty, MagicText}
  ELSE {Hello}

\* one test works on the note, or on the todo store and its linked note
Creatable(f, p) ==
  /\ ~existsSync(f, p)
  /\ \A q \in StoragePaths \ (IF p = NoteA THEN {NoteA} ELSE {TodosPath, NoteB}) :
       ~existsSync(f, q)

\* a test ends with the call whose result it inspects
LastCalls == {"decryptFile", "saveTodos", "loadTodos", "showNote", "showTodo",
              "editNote", "editTodo", "addTodo"}
\* what the editor may leave in the file it was given
Edits == {Hello, Empty}
Ready == pc = "storage" /\ call.op \notin LastCalls

StorageInitSession ==
  /\ Ready
  /\ \E pass \in TestPassphrases :
       sessionKey' = _initSessionForTest(pass)
  /\ UNCHANGED <<storageFrame, fs, marker, console, orig, out, call, sealed>>

StorageClearSession ==
  /\ Ready
  /\ sessionKey # NoKey
  /\ sessionKey' = NoKey
  /\ UNCHANGED <<storageFrame, fs, marker, console, orig, out, call, sealed>>

\* fs.writeFileSync(markerPath, '')
StorageWriteMarker ==
  /\ Ready
  /\ ~marker
  /\ marker' = TRUE
  /\ UNCHANGED <<storageFrame, fs, sessionKey, console, orig, out,
                 call, sealed>>

\* fs.writeFileSync(path, text)
StorageWriteFile ==
  /\ Ready
  /\ \E p \in StoragePaths :
       \E text \in Fixture(p) :
         /\ Creatable(fs, p)
         /\ fs' = [fs EXCEPT ![p] = text]
  /\ UNCHANGED <<storageFrame, marker, sessionKey, console, orig,
                 out, call, sealed>>

\* fs.writeFileSync(path, encrypt(Buffer.from(text)))
StorageWriteEncrypted ==
  /\ Ready
  /\ sessionKey # NoKey
  /\ \E p \in StoragePaths, seed \in 0..MaxNonceSeed :
       \E text \in Fixture(p) :
         /\ Creatable(fs, p)
         /\ fs' = [fs EXCEPT ![p] = encrypt(sessionKey, text, seed).data]
  /\ UNCHANGED <<storageFrame, marker, sessionKey, console, orig,
                 out, call, sealed>>

\* encryptFile(notes/a.md): out holds the bytes handed to writeFileSync
StorageEncryptFile ==
  /\ Ready
  /\ existsSync(fs, NoteA)
  /\ \E seed \in 0..MaxNonceSeed :
       LET content == fs[NoteA]
           after == encryptFile(sessionKey, content, seed)
       IN  /\ call' = [op |-> "encryptFile", arg |-> content, key |-> sessionKey]
           /\ IF ~isEncryptedBuffer(content) /\ sessionKey = NoKey
              THEN /\ out' = Fail(ErrLocked)
                   /\ UNCHANGED <<fs, sealed>>
              ELSE /\ fs' = [fs EXCEPT ![NoteA] = after]
                   /\ out' = Ok(IF after = content THEN <<>> ELSE after)
                   /\ sealed' = IF sealed # NoSeal /\ content = sealed.frame
                                THEN sealed
                                ELSE [key |-> sessionKey, plaintext |-> content,
                                      frame |-> after]
  /\ orig' = fs
  /\ UNCHANGED <<storageFrame, marker, sessionKey, console>>

\* decryptFile(notes/a.md)
StorageDecryptFile ==
  /\ Ready
  /\ existsSync(fs, NoteA)
  /\ call' = [op |-> "decryptFile", arg |-> fs[NoteA], key |-> sessionKey]
  /\ out' = decryptFile(sessionKey, fs, NoteA)
  /\ orig' = fs
  /\ UNCHANGED <<storageFrame, fs, marker, sessionKey, console,
                 sealed>>

\* saveTodos(todos)
StorageSaveTodos ==
  /\ Ready
  /\ \E todos \in {<<>>, <<OpenTodo>>}, seed \in 0..MaxNonceSeed :
       LET w == saveTodos(sessionKey, dataDir, marker, todos, seed)
       IN  /\ call' = [op |-> "saveTodos", arg |-> JSONstringify(todos),
                       key |-> sessionKey]
           /\ out' = w
           /\ console' = w.err
           /\ fs' = IF w.err = "" THEN [fs EXCEPT ![TodosPath] = w.data] ELSE fs
  /\ orig' = fs
  /\ UNCHANGED <<storageFrame, marker, sessionKey, sealed>>

\* listTodos: what loadTodos returns, as the JSON text of the list
listTodos ==
  /\ Ready
  /\ LET l == loadTodos(sessionKey, fs)
     IN  /\ call' = [op |-> "loadTodos", arg |-> fs[TodosPath], key |-> sessionKey]
         /\ out' = Ok(JSONstringify(l.todos))
         /\ console' = l.logged
  /\ orig' = fs
  /\ UNCHANGED <<storageFrame, fs, marker, sessionKey, sealed>>

\* showNote('1'): findNoteFile, then the note is read and printed
showNote ==
  /\ Ready
  /\ existsSync(fs, NoteA)
  /\ call' = [op |-> "showNote", arg |-> fs[NoteA], key |-> sessionKey]
  /\ out' = noteContent(sessionKey, fs[NoteA])
  /\ orig' = fs
  /\ UNCHANGED <<storageFrame, fs, marker, sessionKey, console,
                 sealed>>

\* showTodo('1'): findTodo, then the linked note is read and printed
showTodo ==
  /\ Ready
  /\ LET l == loadTodos(sessionKey, fs)
     IN  /\ l.todos # <<>>
         /\ existsSync(fs, l.todos[1].noteFile)
         /\ call' = [op |-> "showTodo", arg |-> fs[l.todos[1].noteFile],
                     key |-> sessionKey]
         /\ out' = Ok(fs[l.todos[1].noteFile])
         /\ console' = l.logged
  /\ orig' = fs
  /\ UNCHANGED <<storageFrame, fs, marker, sessionKey, sealed>>

\* editNote: notes/a.md is opened in the editor, from the template when new
editNote ==
  /\ Ready
  /\ \E status \in {0, 1}, edited \in Edits, seed \in 0..MaxNonceSeed :
       LET initial == IF existsSync(fs, NoteA) THEN NoFile ELSE Template
           r == openNoteInEditor(sessionKey, dataDir, marker, fs, NoteA,
                                 initial, status, edited, seed)
       IN  /\ call' = [op |-> "editNote", arg |-> r.arg, key |-> sessionKey]
           /\ out' = IF r.err # "" THEN Fail(r.err) ELSE Ok(edited)
           /\ console' = r.err
           /\ fs' = r.fs
  /\ orig' = fs
  /\ UNCHANGED <<storageFrame, marker, sessionKey, sealed>>

\* editTodo('1')
StorageEditTodo ==
  /\ Ready
  /\ existsSync(fs, TodosPath)
  /\ \E status \in {0, 1}, edited \in Edits, seed \in 0..MaxNonceSeed :
       LET r == editTodo(sessionKey, dataDir, marker, fs, status, edited, seed)
       IN  /\ call' = [op |-> "editTodo", arg |-> r.arg, key |-> sessionKey]
           /\ out' = IF r.err # "" THEN Fail(r.err) ELSE Ok(edited)
           /\ console' = r.err
           /\ fs' = r.fs
  /\ orig' = fs
  /\ UNCHANGED <<storageFrame, marker, sessionKey, sealed>>

\* addTodo('text'), when loadTodos hands it the empty list
StorageAddTodo ==
  /\ Ready
  /\ loadTodos(sessionKey, fs).todos = <<>>
  /\ \E seed \in 0..MaxNonceSeed :
       LET r == addTodo(sessionKey, dataDir, marker, fs, seed)
       IN  /\ call' = [op |-> "addTodo", arg |-> fs[TodosPath], key |-> sessionKey]
           /\ out' = IF r.err # "" THEN Fail(r.err) ELSE Ok(r.fs[TodosPath])
           /\ console' = IF r.err # "" THEN r.err
                         ELSE loadTodos(sessionKey, fs).logged
           /\ fs' = r.fs
  /\ orig' = fs
  /\ UNCHANGED <<storageFrame, marker, sessionKey, sealed>>

\* beforeEach of the next test
StorageReset ==
  /\ pc = "storage"
  /\ call.op \in LastCalls
  /\ fs' = [p \in Paths |-> IF p = Draft THEN DraftText ELSE NoFile]
  /\ marker' = FALSE
  /\ sessionKey' = NoKey
  /\ console' = ""
  /\ orig' = fs'
  /\ out' = NoOut
  /\ call' = NoCall
  /\ sealed' = NoSeal
  /\ UNCHANGED storageFrame

StorageNext ==
  \/ StorageInitSession
  \/ StorageClearSession
  \/ StorageWriteMarker
  \/ StorageWriteFile
  \/ StorageWriteEncrypted
  \/ StorageEncryptFile
  \/ StorageDecryptFile
  \/ StorageSaveTodos
  \/ listTodos
  \/ showNote
  \/ showTodo
  \/ editNote
  \/ StorageEditTodo
  \/ StorageAddTodo
  \/ StorageReset

StorageSpec == StorageInit /\ [][StorageNext]_vars

\* ------------------------------------------------------- session key store
\* The store of unlocked keys, one per workspace, with one active workspace.
\* Every workspace directory is encrypted: it holds its own salt and a todo
\* store written under its own passphrase.
SaltOf(w) == randomBytes(SALT_LENGTH, IF w = "personal" THEN 1 ELSE 2)
PassOf(w) == IF w = "personal" THEN <<112>> ELSE <<113>>
CiphertextOf(w) == encrypt(deriveKey(PassOf(w), SaltOf(w)), TodosJson, 0).data

StoreInit ==
  /\ fs = [p \in Paths |-> IF p = Draft THEN DraftText ELSE NoFile]
  /\ salt = NoFile
  /\ marker = FALSE
  /\ dataDir = ""
  /\ sessionKey = NoKey
  /\ pc = "store"
  /\ exitCode = -1
  /\ error = NoError
  /\ console = ""
  /\ passphrase = NoPass
  /\ files = <<>>
  /\ idx = 0
  /\ backups = <<>>
  /\ orig = fs
  /\ encBy = [p \in Paths |-> NoPass]
  /\ restoreFailed = {}
  /\ reported = {}
  /\ faults = 0
  /\ run = ""
  /\ out = NoOut
  /\ call = NoCall
  /\ sealed = NoSeal
  /\ plain = [p \in Paths |-> NoFile]
  /\ owner = NoPass
  /\ start = [salt |-> NoFile, marker |-> FALSE]
  /\ keys = [w \in Workspaces |-> NoKey]
  /\ active = ""
  /\ encrypts = <<>>
  /\ todoList = <<>>

storeFrame == <<fs, salt, marker, dataDir, sessionKey, error, passphrase,
                files, idx, backups, orig, encBy, restoreFailed, reported,
                faults, run, sealed, plain, owner, start, encrypts, todoList>>

\* faulty variant: the key unlocked first is used for every workspace
getFirst(ks, w) == IF w = "" THEN NoKey ELSE ks["personal"]

\* get(workspace_id) -> key | None
get(ks, w) == IF w = "" THEN NoKey ELSE ks[w]

\* unlock: the derived key, or NoKey when it does not decrypt the ciphertext
\* the workspace holds
unlock(w, pass) ==
  LET key == deriveKey(pass, SaltOf(w))
  IN  IF decrypt(key, CiphertextOf(w)).err = "" THEN key ELSE NoKey

\* switch_active: a cached key makes it a pointer swap; without one the
\* passphrase is prompted for and the key unlocked, and a wrong passphrase
\* ends the process with nothing installed
StoreSwitchActive ==
  /\ pc = "store"
  /\ \E w \in Workspaces \ {active} :
       /\ call' = [op |-> "switch", arg |-> <<>>, key |-> get(keys, w)]
       /\ out' = NoOut
       /\ IF get(keys, w) # NoKey
          THEN /\ active' = w
               /\ console' = ""
               /\ UNCHANGED <<keys, pc, exitCode>>
          ELSE \E pass \in TestPassphrases :
                 LET key == unlock(w, pass)
                 IN  IF key = NoKey
                     THEN /\ exit(1, MsgWrong)
                          /\ UNCHANGED <<keys, active>>
                     ELSE /\ keys' = [keys EXCEPT ![w] = key]
                          /\ active' = w
                          /\ console' = "Passphrase: "
                          /\ UNCHANGED <<pc, exitCode>>
  /\ UNCHANGED storeFrame

\* clear(workspace_id | all)
StoreClear ==
  /\ pc = "store"
  /\ \/ \E w \in Workspaces :
          /\ keys[w] # NoKey
          /\ keys' = [keys EXCEPT ![w] = NoKey]
     \/ keys' = [w \in Workspaces |-> NoKey]
  /\ call' = [op |-> "clear", arg |-> <<>>, key |-> NoKey]
  /\ out' = NoOut
  /\ UNCHANGED <<storeFrame, active, pc, exitCode, console>>

\* encrypt and decrypt under the key of the active workspace
StoreEncrypt ==
  /\ pc = "store"
  /\ \E text \in Plaintexts, seed \in 0..MaxCallSeed :
       /\ out' = encrypt(get(keys, active), text, seed)
       /\ call' = [op |-> "encrypt", arg |-> text, key |-> get(keys, active)]
  /\ UNCHANGED <<storeFrame, keys, active, pc, exitCode, console>>

StoreDecrypt ==
  /\ pc = "store"
  /\ active # ""
  /\ out' = decrypt(get(keys, active), CiphertextOf(active))
  /\ call' = [op |-> "decrypt", arg |-> CiphertextOf(active),
              key |-> get(keys, active)]
  /\ UNCHANGED <<storeFrame, keys, active, pc, exitCode, console>>

\* the next launch: the store is process memory
StoreRestart ==
  /\ pc = "exited"
  /\ pc' = "store"
  /\ exitCode' = -1
  /\ console' = ""
  /\ keys' = [w \in Workspaces |-> NoKey]
  /\ active' = ""
  /\ out' = NoOut
  /\ call' = NoCall
  /\ UNCHANGED storeFrame

StoreNext ==
  \/ StoreSwitchActive
  \/ StoreClear
  \/ StoreEncrypt
  \/ StoreDecrypt
  \/ StoreRestart

StoreSpec == StoreInit /\ [][StoreNext]_vars

\* ---------------------------------------------------------------- sessions
\* Launches of the program on one directory, each followed by commands typed
\* in the REPL, when no file-system call fails and no process is killed:
\* setupEncryption runs to its end, the commands are those that write data.
SessionInit ==
  /\ fs \in { f \in [Paths -> {NoFile, TodosJson, TodosLinked, Hello, DraftText}] :
                /\ f[TodosPath] \in {NoFile, TodosJson, TodosLinked}
                /\ f[NoteA] \in {NoFile, Hello}
                /\ f[NoteB] \in {NoFile, Hello}
                /\ f[Draft] = DraftText
                /\ f[TempPath] = NoFile }
  /\ salt = NoFile
  /\ marker = FALSE
  /\ dataDir = "ws"
  /\ sessionKey = NoKey
  /\ pc = "launch"
  /\ exitCode = -1
  /\ error = NoError
  /\ console = ""
  /\ passphrase = NoPass
  /\ files = <<>>
  /\ idx = 0
  /\ backups = <<>>
  /\ orig = fs
  /\ encBy = [p \in Paths |-> NoPass]
  /\ restoreFailed = {}
  /\ reported = {}
  /\ faults = 0
  /\ run = ""
  /\ out = NoOut
  /\ call = NoCall
  /\ sealed = NoSeal
  /\ plain = [p \in Paths |-> NoFile]
  /\ owner = NoPass
  /\ start = [salt |-> NoFile, marker |-> FALSE]
  /\ keys = [w \in Workspaces |-> NoKey]
  /\ active = ""
  /\ encrypts = <<>>
  /\ todoList = <<>>

sessionFrame == <<dataDir, error, files, idx, backups, restoreFailed, reported,
                  faults, sealed, plain, start, keys, active, encrypts, todoList>>

\* the for loop of setupEncryption when every encryptFile returns
RECURSIVE encryptAll(_, _, _, _)
encryptAll(key, f, list, seed) ==
  IF list = <<>> THEN f
  ELSE encryptAll(key, [f EXCEPT ![Head(list)] = encryptFile(key, f[Head(list)], seed)],
                  Tail(list), seed)

\* the passphrase under whose key each frame was written
writtenBy(f, g, by, pass) ==
  [p \in Paths |-> IF g[p] = f[p] THEN by[p]
                   ELSE IF isEncryptedBuffer(g[p]) THEN pass ELSE NoPass]

\* a launch without the marker: setupEncryption from the prompts to the marker
SessionSetup ==
  /\ pc = "launch"
  /\ ~isEncryptionEnabled(dataDir, marker)
  /\ \E pass \in TestPassphrases, saltSeed \in 0..MaxSaltSeed,
        seed \in 0..MaxNonceSeed :
       LET g == getOrCreateSalt(salt, saltSeed)
           key == deriveKey(pass, g.salt)
       IN  /\ salt' = g.file
           /\ sessionKey' = key
           /\ fs' = encryptAll(key, fs, collectDataFiles(fs), seed)
           /\ passphrase' = pass
           /\ owner' = pass
           /\ encBy' = writtenBy(fs, fs', encBy, pass)
           /\ call' = [op |-> "setupEncryption", arg |-> <<>>, key |-> key]
  /\ marker' = TRUE
  /\ run' = "setup"
  /\ pc' = "session"
  /\ orig' = fs
  /\ out' = NoOut
  /\ UNCHANGED <<sessionFrame, exitCode, console>>

\* a launch with the marker: unlockSession
SessionUnlock ==
  /\ pc = "launch"
  /\ isEncryptionEnabled(dataDir, marker)
  /\ \E pass \in TestPassphrases :
       LET v == unlockVerify(deriveKey(pass, fromHex(trim(salt))), fs)
       IN  /\ passphrase' = pass
           /\ sessionKey' = v.sessionKey
           /\ call' = [op |-> "unlockSession", arg |-> <<>>, key |-> v.sessionKey]
           /\ IF v.exit
              THEN exit(1, MsgWrong)
              ELSE pc' = "session" /\ UNCHANGED <<exitCode, console>>
  /\ run' = "unlock"
  /\ orig' = fs
  /\ out' = NoOut
  /\ UNCHANGED <<sessionFrame, fs, salt, marker, owner, encBy>>

\* add "text" typed in the REPL, when the list read back is empty
SessionAddTodo ==
  /\ pc = "session"
  /\ loadTodos(sessionKey, fs).todos = <<>>
  /\ \E seed \in 0..MaxNonceSeed :
       LET r == addTodo(sessionKey, dataDir, marker, fs, seed)
       IN  /\ fs' = r.fs
           /\ out' = IF r.err # "" THEN Fail(r.err) ELSE Ok(fs'[TodosPath])
           /\ call' = [op |-> "addTodo", arg |-> fs[TodosPath], key |-> sessionKey]
  /\ encBy' = writtenBy(fs, fs', encBy, passphrase)
  /\ orig' = fs
  /\ UNCHANGED <<sessionFrame, salt, marker, sessionKey, pc, exitCode, console,
                 passphrase, owner, run>>

\* delete 1 typed in the REPL
SessionDeleteTodo ==
  /\ pc = "session"
  /\ loadTodos(sessionKey, fs).todos # <<>>
  /\ \E seed \in 0..MaxNonceSeed :
       LET r == deleteTodo(sessionKey, dataDir, marker, fs,
                           loadTodos(sessionKey, fs).todos, seed)
       IN  /\ fs' = r.fs
           /\ out' = IF r.err # "" THEN Fail(r.err) ELSE Ok(fs'[TodosPath])
           /\ call' = [op |-> "deleteTodo", arg |-> fs[TodosPath], key |-> sessionKey]
  /\ encBy' = writtenBy(fs, fs', encBy, passphrase)
  /\ orig' = fs
  /\ UNCHANGED <<sessionFrame, salt, marker, sessionKey, pc, exitCode, console,
                 passphrase, owner, run>>

\* note and edit 1 typed in the REPL
SessionEditNote ==
  /\ pc = "session"
  /\ \E status \in {0, 1}, edited \in Edits, seed \in 0..MaxNonceSeed :
       LET initial == IF existsSync(fs, NoteA) THEN NoFile ELSE Template
           r == openNoteInEditor(sessionKey, dataDir, marker, fs, NoteA,
                                 initial, status, edited, seed)
       IN  /\ fs' = r.fs
           /\ out' = IF r.err # "" THEN Fail(r.err) ELSE Ok(edited)
           /\ call' = [op |-> "editNote", arg |-> r.arg, key |-> sessionKey]
  /\ encBy' = writtenBy(fs, fs', encBy, passphrase)
  /\ orig' = fs
  /\ UNCHANGED <<sessionFrame, salt, marker, sessionKey, pc, exitCode, console,
                 passphrase, owner, run>>

SessionEditTodo ==
  /\ pc = "session"
  /\ \E status \in {0, 1}, edited \in Edits, seed \in 0..MaxNonceSeed :
       LET r == editTodo(sessionKey, dataDir, marker, fs, status, edited, seed)
       IN  /\ fs' = r.fs
           /\ out' = IF r.err # "" THEN Fail(r.err) ELSE Ok(edited)
           /\ call' = [op |-> "editTodo", arg |-> r.arg, key |-> sessionKey]
  /\ encBy' = writtenBy(fs, fs', encBy, passphrase)
  /\ orig' = fs
  /\ UNCHANGED <<sessionFrame, salt, marker, sessionKey, pc, exitCode, console,
                 passphrase, owner, run>>

\* exit typed in the REPL, or the launch after process.exit(1)
SessionEnd ==
  /\ pc \in {"session", "exited"}
  /\ pc' = "launch"
  /\ sessionKey' = NoKey
  /\ passphrase' = NoPass
  /\ exitCode' = -1
  /\ console' = ""
  /\ run' = ""
  /\ out' = NoOut
  /\ call' = NoCall
  /\ orig' = fs
  /\ UNCHANGED <<sessionFrame, fs, salt, marker, owner, encBy>>

SessionNext ==
  \/ SessionSetup
  \/ SessionUnlock
  \/ SessionAddTodo
  \/ SessionDeleteTodo
  \/ SessionEditNote
  \/ SessionEditTodo
  \/ SessionEnd

SessionSpec == SessionInit /\ [][SessionNext]_vars

\* ------------------------------------------------------------ todo commands
\* The commands that reorder the todo list, on the list loadTodos returns and
\* saveTodos stores; a todo is its id and its completed flag.
TodoInit ==
  /\ fs = [p \in Paths |-> IF p = Draft THEN DraftText ELSE NoFile]
  /\ salt = NoFile
  /\ marker = FALSE
  /\ dataDir = ""
  /\ sessionKey = NoKey
  /\ pc = "todos"
  /\ exitCode = -1
  /\ error = NoError
  /\ console = ""
  /\ passphrase = NoPass
  /\ files = <<>>
  /\ idx = 0
  /\ backups = <<>>
  /\ orig = fs
  /\ encBy = [p \in Paths |-> NoPass]
  /\ restoreFailed = {}
  /\ reported = {}
  /\ faults = 0
  /\ run = ""
  /\ out = NoOut
  /\ call = NoCall
  /\ sealed = NoSeal
  /\ plain = [p \in Paths |-> NoFile]
  /\ owner = NoPass
  /\ start = [salt |-> NoFile, marker |-> FALSE]
  /\ keys = [w \in Workspaces |-> NoKey]
  /\ active = ""
  /\ encrypts = <<>>
  /\ todoList = <<>>

todoFrame == <<fs, salt, marker, dataDir, sessionKey, pc, exitCode, error,
               console, passphrase, files, idx, backups, orig, encBy,
               restoreFailed, reported, faults, run, out, sealed, plain,
               owner, start, keys, active, encrypts>>

\* list.splice(index, 1), index counted from 1
spliceOut(list, index) ==
  SubSeq(list, 1, index - 1) \o SubSeq(list, index + 1, Len(list))

\* list.splice(index, 0, todo), index counted from 1
spliceIn(list, index, todo) ==
  SubSeq(list, 1, index - 1) \o <<todo>> \o SubSeq(list, index, Len(list))

\* before the first completed todo, or at the end when none is completed
insertBeforeCompleted(list, todo) ==
  LET firstCompletedIndex ==
        IF \E i \in 1..Len(list) : list[i].completed
        THEN CHOOSE i \in 1..Len(list) :
               /\ list[i].completed
               /\ \A j \in 1..(i - 1) : ~list[j].completed
        ELSE 0
  IN  IF firstCompletedIndex # 0
      THEN spliceIn(list, firstCompletedIndex, todo)
      ELSE Append(list, todo)

\* toggleTodo: undoneTodo for a completed todo, completeTodo for an open one
toggleTodo(list, index) ==
  insertBeforeCompleted(spliceOut(list, index),
                        [list[index] EXCEPT !.completed = ~list[index].completed])

moveTodo(list, fromIndex, toIndex) ==
  IF fromIndex = toIndex THEN list
  ELSE spliceIn(spliceOut(list, fromIndex), toIndex, list[fromIndex])

\* add "text"
TodoAdd ==
  /\ pc = "todos"
  /\ Len(todoList) < MaxTodos
  /\ \E id \in 1..MaxTodos :
       /\ \A i \in 1..Len(todoList) : todoList[i].id # id
       /\ \A other \in 1..(id - 1) :
            \E i \in 1..Len(todoList) : todoList[i].id = other
       /\ todoList' = insertBeforeCompleted(todoList,
                                           [id |-> id, completed |-> FALSE])
  /\ call' = [op |-> "addTodo", arg |-> <<>>, key |-> NoKey]
  /\ UNCHANGED todoFrame

\* toggle <#>
TodoToggle ==
  /\ pc = "todos"
  /\ \E index \in 1..Len(todoList) : todoList' = toggleTodo(todoList, index)
  /\ call' = [op |-> "toggleTodo", arg |-> <<>>, key |-> NoKey]
  /\ UNCHANGED todoFrame

\* delete <#>
TodoDelete ==
  /\ pc = "todos"
  /\ \E index \in 1..Len(todoList) : todoList' = spliceOut(todoList, index)
  /\ call' = [op |-> "deleteTodo", arg |-> <<>>, key |-> NoKey]
  /\ UNCHANGED todoFrame

\* mv <#> <#>, mv <#> first, mv <#> last
TodoMove ==
  /\ pc = "todos"
  /\ \E fromIndex \in 1..Len(todoList), toIndex \in 1..Len(todoList) :
       todoList' = moveTodo(todoList, fromIndex, toIndex)
  /\ call' = [op |-> "moveTodo", arg |-> <<>>, key |-> NoKey]
  /\ UNCHANGED todoFrame

TodoNext ==
  \/ TodoAdd
  \/ TodoToggle
  \/ TodoDelete
  \/ TodoMove

TodoSpec == TodoInit /\ [][TodoNext]_vars

\* ------------------------------------------------------------------ claims
\* the data files of the claims: todos.json and the .md files below notes/
Present(f) == {p \in StoragePaths : f[p] # NoFile}
BackedUp == {backups[i].path : i \in 1..Len(backups)}
MigrationFailed == pc = "thrown" /\ run = "setup" /\ error.path # ".salt"

\* C1: after a migration that failed in the try block, every backed-up file
\* whose write-back did not fail holds the bytes it had when the run began,
\* the marker does not exist, and the error of the failing call is thrown.
C1_RollbackRestores ==
  MigrationFailed =>
    /\ \A p \in BackedUp \ restoreFailed : fs[p] = orig[p]
    /\ ~marker
    /\ error.msg = ErrIO
    /\ [op |-> error.op, path |-> error.path] \in reported

C1_Witness ==
  /\ MigrationFailed
  /\ restoreFailed # {}
  /\ \E p \in BackedUp \ restoreFailed : ~isEncryptedBuffer(orig[p])
  /\ \E p \in restoreFailed : fs[p] # orig[p]

\* C2: during a run of setupEncryption the marker exists only once the run
\* has returned, and then every collected file is in frame form.
C2_MarkerLast ==
  (run = "setup" /\ marker) =>
    /\ pc \in {"returned", "repl"}
    /\ pc = "returned" =>
         \A p \in Present(orig) : isEncryptedBuffer(fs[p])

C2_Witness ==
  /\ run = "setup"
  /\ marker
  /\ pc = "returned"
  /\ Present(orig) = StoragePaths
  /\ \A p \in StoragePaths : ~isEncryptedBuffer(orig[p])

\* C3: a migration of plaintext files that returns leaves every data file in
\* frame form, the marker present and a session key installed under which
\* decryptFile gives back each file's original bytes.
C3_MigrationSuccess ==
  (/\ pc = "returned"
   /\ run = "setup"
   /\ \A p \in Present(orig) : ~isEncryptedBuffer(orig[p])) =>
    /\ marker
    /\ sessionKey # NoKey
    /\ passphrase # <<>>
    /\ \A p \in Present(orig) :
         /\ isEncryptedBuffer(fs[p])
         /\ decryptFile(sessionKey, fs, p) = Ok(orig[p])

C3_Witness ==
  /\ pc = "returned"
  /\ run = "setup"
  /\ orig[TodosPath] = TodosJson
  /\ orig[NoteA] = Hello
  /\ orig[NoteB] = Empty
  /\ fs[NoteB] # Empty

\* C4: an unlock that returns in a directory holding frames written by the
\* engine has installed a key that decrypts one of them.
C4_VerifyBeforeCommit ==
  (/\ pc = "returned"
   /\ run = "unlock"
   /\ \E p \in StoragePaths : encBy[p] # NoPass) =>
    \E p \in StoragePaths :
      /\ encBy[p] # NoPass
      /\ decrypt(sessionKey, fs[p]).err = ""

\* C5: an unlock given another passphrase than the one todos.json was
\* encrypted with exits with code 1 and 'Wrong passphrase', sessionKey null.
C5_WrongPassphraseExits ==
  (/\ run = "unlock"
   /\ pc \in {"returned", "exited"}
   /\ passphrase # NoPass
   /\ encBy[TodosPath] # NoPass
   /\ passphrase # encBy[TodosPath]) =>
    /\ pc = "exited"
    /\ exitCode = 1
    /\ console = MsgWrong
    /\ sessionKey = NoKey

C5_Witness ==
  /\ run = "unlock"
  /\ pc = "exited"
  /\ encBy[TodosPath] = <<112>>
  /\ passphrase = <<113>>

\* C6: after a migration that failed in the try block sessionKey is null and
\* every encrypt or decrypt call of the caller fails as locked.
C6_FailedMigrationLocks ==
  MigrationFailed =>
    /\ sessionKey = NoKey
    /\ call.op # "" => out = Fail(ErrLocked)

C6_Witness ==
  /\ MigrationFailed
  /\ BackedUp # {}
  /\ call.op = "decrypt"
  /\ isEncryptedBuffer(call.arg)

\* C7: a write-back that failed during the rollback is made known to the
\* caller when setupEncryption throws.
C7_RestoreFailureSurfaced ==
  pc = "thrown" =>
    \A p \in restoreFailed : [op |-> "restore", path |-> p] \in reported

\* the positions at which two buffers of one length differ
Diff(a, b) == {i \in 1..Len(a) : a[i] # b[i]}

\* C8: decrypt of a frame under the key that made it returns the plaintext,
\* and the frame of the empty buffer has exactly 40 bytes.
C8_RoundTrip ==
  /\ (/\ call.op = "decrypt"
      /\ call.key # NoKey
      /\ call.key = sealed.key
      /\ call.arg = sealed.frame) => out = Ok(sealed.plaintext)
  /\ sealed # NoSeal =>
       Len(sealed.frame) = 40 + Len(sealed.plaintext)

C8_Witness ==
  /\ call.op = "decrypt"
  /\ call.key # NoKey
  /\ call.key = sealed.key
  /\ call.arg = sealed.frame
  /\ sealed.plaintext = Empty
  /\ Len(call.arg) = 40
  /\ out = Ok(Empty)

\* C9: decrypt of a frame, or of a frame with one byte of its nonce, tag or
\* ciphertext changed, returns data only for the unchanged frame under the
\* key that made it, and fails with the authentication error otherwise.
C9_FailClosed ==
  (/\ call.op = "decrypt"
   /\ call.key # NoKey
   /\ sealed # NoSeal
   /\ Len(call.arg) = Len(sealed.frame)
   /\ Cardinality(Diff(call.arg, sealed.frame)) <= 1
   /\ \A i \in Diff(call.arg, sealed.frame) : i > MAGIC_LENGTH) =>
    IF call.key = sealed.key /\ call.arg = sealed.frame
    THEN out.err = ""
    ELSE out = Fail(ErrAuth)

C9_Witness ==
  /\ call.op = "decrypt"
  /\ call.key = sealed.key
  /\ sealed # NoSeal
  /\ Len(call.arg) = Len(sealed.frame)
  /\ Diff(call.arg, sealed.frame) = {Len(sealed.frame)}
  /\ Len(sealed.plaintext) > 0
  /\ out = Fail(ErrAuth)

\* C10: with no session key encrypt and decrypt fail as locked for every
\* input, before any format check, and return no data.
C10_LockedSession ==
  (call.op \in {"encrypt", "decrypt"} /\ call.key = NoKey) => out = Fail(ErrLocked)

C10_Witness ==
  /\ call.op = "decrypt"
  /\ call.key = NoKey
  /\ Len(call.arg) < MAGIC_LENGTH + NONCE_LENGTH + TAG_LENGTH
  /\ out = Fail(ErrLocked)

\* a buffer that begins with the 12 magic bytes
HasMagic(buf) == Len(buf) >= 12 /\ SubSeq(buf, 1, 12) = MAGIC

\* C11: a reader that finds frame bytes in the file it reads decrypts them
\* with the session key, and presents no frame bytes as the file's text.
C11_ReadersDecrypt ==
  (/\ call.op \in {"loadTodos", "showNote", "showTodo"}
   /\ HasMagic(call.arg)
   /\ out.err = "") =>
    /\ decrypt(call.key, call.arg).err = ""
    /\ out.data # call.arg

\* C12: saveTodos writes a frame of the JSON text when the marker exists and
\* the JSON text itself when it does not; with the marker and no session key
\* it throws the locked error and todos.json is as before.
C12_SaveFollowsMarker ==
  call.op = "saveTodos" =>
    IF marker
    THEN IF call.key = NoKey
         THEN out = Fail(ErrLocked) /\ fs = orig
         ELSE /\ out.err = ""
              /\ HasMagic(fs[TodosPath])
              /\ decrypt(call.key, fs[TodosPath]) = Ok(call.arg)
    ELSE /\ out.err = ""
         /\ fs[TodosPath] = call.arg
         /\ ~HasMagic(fs[TodosPath])

C12_Witness ==
  /\ call.op = "saveTodos"
  /\ marker
  /\ call.key = NoKey
  /\ orig[TodosPath] = TodosLinked
  /\ call.arg = TodosJson
  /\ fs[TodosPath] = TodosLinked

\* C13: loadTodos on a todos.json that it cannot decrypt does not return a
\* list: the failure reaches the caller.
C13_LoadPropagates ==
  (/\ call.op = "loadTodos"
   /\ HasMagic(call.arg)
   /\ decrypt(call.key, call.arg).err # "") => out.err # ""

\* C15 as claimed: decryptFile after encryptFile gives back the content the
\* file held, whatever that content was.
C15_FileRoundTripAny ==
  (/\ call.op = "decryptFile"
   /\ sealed # NoSeal
   /\ call.arg = sealed.frame
   /\ call.key # NoKey
   /\ call.key = sealed.key) =>
    /\ HasMagic(call.arg)
    /\ out = Ok(sealed.plaintext)

\* C15: for a content that does not begin with the magic bytes, the file
\* passes isEncryptedBuffer after encryptFile and decryptFile under the same
\* key returns the content.
C15_FileRoundTrip ==
  (/\ call.op = "decryptFile"
   /\ sealed # NoSeal
   /\ call.arg = sealed.frame
   /\ call.key # NoKey
   /\ call.key = sealed.key
   /\ ~HasMagic(sealed.plaintext)) =>
    /\ HasMagic(call.arg)
    /\ out = Ok(sealed.plaintext)

C15_Witness ==
  /\ call.op = "decryptFile"
  /\ sealed.plaintext = Empty
  /\ call.arg = sealed.frame
  /\ call.key # NoKey
  /\ call.key = sealed.key
  /\ Len(call.arg) = 40
  /\ out = Ok(Empty)

\* C16: encryptFile on a file in frame form hands nothing to writeFileSync,
\* leaves every file as it was and succeeds with or without a session key.
C16_EncryptFileIdempotent ==
  (call.op = "encryptFile" /\ HasMagic(call.arg)) =>
    /\ out = Ok(<<>>)
    /\ fs = orig

C16_Witness ==
  /\ call.op = "encryptFile"
  /\ sealed.plaintext = Hello
  /\ sealed.key # NoKey
  /\ call.arg = sealed.frame
  /\ call.key = NoKey
  /\ fs[NoteA] = sealed.frame

\* C17: decryptFile on a file that does not begin with the magic bytes
\* returns the file's bytes, with or without a session key, and changes no
\* file.
C17_PlaintextPassThrough ==
  (call.op = "decryptFile" /\ ~HasMagic(call.arg)) =>
    /\ out = Ok(call.arg)
    /\ fs = orig

C17_Witness ==
  /\ call.op = "decryptFile"
  /\ call.key = NoKey
  /\ call.arg = Hello
  /\ out = Ok(Hello)

Untouched ==
  /\ fs = orig
  /\ salt = start.salt
  /\ marker = start.marker

\* C18: in a setup run, until both prompts have been answered with a
\* non-empty passphrase and an equal confirmation, no data file, .salt or
\* .encrypted has changed and sessionKey is null; a run that ends at a prompt
\* ends with exit code 1 and the directory and sessionKey as at its start.
C18_NoEffectBeforeAccept ==
  /\ (run = "setup" /\ pc \in {"setup_pass", "setup_confirm", "setup_key"}) =>
       Untouched /\ sessionKey = NoKey
  /\ (run = "setup" /\ pc = "exited") =>
       /\ Untouched
       /\ sessionKey = NoKey
       /\ exitCode = 1
       /\ console \in {"", "Passphrase cannot be empty", MsgMismatch}
  /\ (run = "setup" /\ pc \in {"setup_key", "setup_encrypt", "rollback", "thrown"}) =>
       passphrase \notin {NoPass, <<>>}
  /\ (run = "setup" /\ (~Untouched \/ sessionKey # NoKey)) =>
       passphrase \notin {NoPass, <<>>}

C18_Witness ==
  /\ run = "setup"
  /\ pc = "exited"
  /\ console = MsgMismatch
  /\ passphrase = <<112>>
  /\ orig[TodosPath] = TodosJson
  /\ orig[NoteA] = Hello

\* C19: launched on a directory whose marker exists, the run is an unlock:
\* it never stands at a setup or confirmation prompt, and data files, .salt
\* and .encrypted hold what they held at the start whatever its outcome.
C19_ReentrantEnable ==
  /\ (start.marker /\ pc # "main") => run = "unlock"
  /\ run = "unlock" =>
       /\ pc \in {"unlock", "returned", "repl", "exited"}
       /\ Untouched
       /\ marker
       /\ pc = "unlock" => sessionKey = NoKey /\ passphrase = NoPass

C19_Witness ==
  /\ run = "unlock"
  /\ pc = "returned"
  /\ sessionKey # NoKey
  /\ HasMagic(fs[TodosPath])
  /\ HasMagic(fs[NoteA])

\* C20: an unlock given the passphrase of the migration that wrote the
\* marker returns with a key under which every file that migration encrypted
\* decrypts to the bytes it held, and leaves .salt as it was.
C20_UnlockAfterRestart ==
  (/\ run = "unlock"
   /\ pc \in {"returned", "exited"}
   /\ owner # NoPass
   /\ passphrase = owner) =>
    /\ pc = "returned"
    /\ sessionKey # NoKey
    /\ salt = start.salt
    /\ \A p \in StoragePaths :
         encBy[p] = owner => decryptFile(sessionKey, fs, p) = Ok(plain[p])

\* C21: an unlock run started without the .salt file ends with exit code 1
\* and the salt-missing message, with no passphrase read, no .salt written,
\* sessionKey null and every file as at the start.
C21_MissingSaltFatal ==
  (run = "unlock" /\ start.salt = NoFile) =>
    /\ pc \in {"unlock", "exited"}
    /\ salt = NoFile
    /\ Untouched
    /\ sessionKey = NoKey
    /\ passphrase = NoPass
    /\ pc = "exited" => exitCode = 1 /\ console = MsgSaltMissing

C21_Witness ==
  /\ run = "unlock"
  /\ start.salt = NoFile
  /\ pc = "exited"
  /\ console = MsgSaltMissing
  /\ HasMagic(fs[TodosPath])

\* C22: with encryption enabled, once editNote or editTodo has returned or
\* thrown the temporary file does not exist, whatever the editor's status and
\* whether reading, decrypting or re-encrypting failed; the editor was given
\* the temporary path only, and that path is no data file.
C22_TempFileRemoved ==
  (call.op \in {"editNote", "editTodo"} /\ marker) =>
    /\ ~existsSync(fs, TempPath)
    /\ call.arg \in {"", TempPath}
    /\ TempPath \notin StoragePaths
    /\ (call.arg = "" /\ call.op = "editNote") => out.err # ""

C22_Witness ==
  /\ call.op = "editNote"
  /\ marker
  /\ call.arg = TempPath
  /\ out = Fail(ErrLocked)
  /\ ~existsSync(fs, TempPath)

\* a buffer holds the bytes of sub at some offset
Contains(buf, sub) ==
  /\ sub # <<>>
  /\ \E i \in 0..(Len(buf) - Len(sub)) : SubSeq(buf, i + 1, i + Len(sub)) = sub

\* a file of the directory, a temporary file or .salt holds the secret, raw
\* or in hex
Leaked(secret) ==
  \E buf \in {fs[p] : p \in {q \in Paths : existsSync(fs, q)}}
               \cup (IF salt = NoFile THEN {} ELSE {salt}) :
    Contains(buf, secret) \/ Contains(buf, toHex(secret))

C24_MalformedRejected ==
  (call.op = "decrypt" /\ call.key # NoKey) =>
    /\ Len(call.arg) < 40 => out = Fail(ErrTooShort)
    /\ (Len(call.arg) >= 40 /\ SubSeq(call.arg, 1, 12) # MAGIC) =>
         out = Fail(ErrFormat)

C24_Witness ==
  /\ call.op = "decrypt"
  /\ call.key # NoKey
  /\ Len(call.arg) = 39
  /\ SubSeq(call.arg, 1, 12) = MAGIC
  /\ out = Fail(ErrTooShort)

\* C27: all frames of the data directory are written under one key, and a
\* key installed in a session decrypts every frame the directory holds.
C27_SingleKey ==
  /\ \A p \in StoragePaths : \A q \in StoragePaths :
       (HasMagic(fs[p]) /\ HasMagic(fs[q])) => encBy[p] = encBy[q]
  /\ (pc = "session" /\ sessionKey # NoKey) =>
       \A p \in StoragePaths :
         HasMagic(fs[p]) => decrypt(sessionKey, fs[p]).err = ""

\* C28: in a directory that was plaintext at the start, while the marker exists
\* todos.json and every note are frames, and a command that changes a data
\* file leaves a frame or no file.
C28_EncryptedDirectory ==
  marker =>
    /\ \A p \in StoragePaths : existsSync(fs, p) => HasMagic(fs[p])
    /\ call.op \in {"addTodo", "deleteTodo", "editNote", "editTodo"} =>
         \A p \in StoragePaths :
           (fs[p] # orig[p] /\ existsSync(fs, p)) => HasMagic(fs[p])

C28_Witness ==
  /\ marker
  /\ call.op = "editNote"
  /\ out.err = ""
  /\ fs[NoteA] # orig[NoteA]
  /\ HasMagic(orig[NoteA])
  /\ HasMagic(fs[NoteA])
  /\ HasMagic(fs[TodosPath])

\* C29: addTodo on a todos.json that loadTodos could not read leaves the file
\* as it was.
C29_NoSilentLoss ==
  (/\ call.op = "addTodo"
   /\ existsSync(orig, TodosPath)
   /\ loadTodos(call.key, orig).logged # "") => fs[TodosPath] = orig[TodosPath]

\* C30: in the stored todo list every incomplete todo precedes every
\* completed todo.
C30_IncompleteFirst ==
  pc = "todos" =>
    \A i \in 1..Len(todoList) : \A j \in 1..Len(todoList) :
      (i < j /\ todoList[i].completed) => todoList[j].completed

\* the nonce field of a frame
nonceOf(frame) ==
  subarray(frame, MAGIC_LENGTH, MAGIC_LENGTH + NONCE_LENGTH)

C25_FormatDetection ==
  /\ call.op = "isEncryptedBuffer" =>
       (out = Ok(<<1>>)) <=>
         (Len(call.arg) >= 12 /\
          SubSeq(call.arg, 1, 12) = <<68, 65, 73, 76, 89, 95, 69, 78, 67, 95, 86, 49>>)
  /\ call.op = "isEncryptedBuffer" => out \in {Ok(<<1>>), Ok(<<0>>)}
  /\ (call.op = "encrypt" /\ out.err = "") => isEncryptedBuffer(out.data)

C25_Witness ==
  /\ call.op = "isEncryptedBuffer"
  /\ sealed # NoSeal
  /\ Len(call.arg) = Len(sealed.frame)
  /\ Diff(call.arg, sealed.frame) = {12}
  /\ out = Ok(<<0>>)

====
